---- MODULE Spec2Model ----
(***************************************************************************)
(* Model of the RAG pipeline scripts.                                      *)
(*                                                                         *)
(*  - scripts/create-knowledge-base.py: main() = create_knowledge_base,    *)
(*    create_data_source, sync_data_source, run against a remote indexing  *)
(*    service (specification Spec).                                        *)
(*  - scripts/prepare-data-for-rag.py: clean_text (specification           *)
(*    SpecClean) and the markup path of process_wiki_document /            *)
(*    html_to_markdown (specification SpecHtml).                           *)
(*                                                                         *)
(* Text is a sequence of one-character strings; a markup document is a     *)
(* sequence of tokens, each a one-character string or a whole tag.         *)
(***************************************************************************)
EXTENDS Naturals, Sequences, FiniteSets, TLC

\* ------------------------------------------------------------------ bounds
\* Runs of main() against the same remote service.
MaxRuns == 2
\* Non-terminal answers the remote service gives to one polling loop.
MaxPolls == 2
\* Largest document count in an ingestion job's statistics.
MaxDocs == 1
\* Longest list of failure reasons of an ingestion job.
MaxReasons == 2

\* --------------------------------------------------------------- variables
VARIABLES
    \* remote indexing service
    kbs,            \* knowledge bases, in listing order: [id, name, status]
    dss,            \* data sources, in listing order: [id, kb, name]
    jobsStarted,    \* ingestion jobs started so far (the last job's id)
    \* the running process (main and its callees)
    pc,             \* position of the run
    run,            \* number of the current run
    kb_id, ds_id, job_id,   \* main's and sync_data_source's locals (0: unset)
    exitCode,       \* "none", "0" or "1"
    \* what the run received and printed
    kbObserved,     \* last status of the knowledge base the run received
    kbPolls,        \* get_knowledge_base calls of the run
    kbCreated,      \* the run issued create_knowledge_base
    dsListHit,      \* "none", or "hit"/"miss": list_data_sources held the name
    dsCalls,        \* list_data_sources/create_data_source calls of the run
    jobStarts,      \* start_ingestion_job calls of the run
    jobPolls,       \* get_ingestion_job calls of the run
    lastJob,        \* last get_ingestion_job response of the run
    pollAfterFailed,\* a get_ingestion_job call followed a FAILED response
    statusLines,    \* "Status: ..." lines printed
    printedStats,   \* <<scanned, indexed>> printed, or <<>>
    printedReasons, \* "Reason: ..." lines printed, in order
    syncFailedLine, \* "Sync failed" was printed
    setupComplete,  \* "Setup Complete!" was printed
    \* across runs
    kbCreateCalls, dsCreateCalls,
    kbReturned,     \* identifiers create_knowledge_base returned, in order
    kbInitially,    \* the named knowledge base existed before the first run
    collection_arn, \* create_knowledge_base's local: "unset", "None" or "arn"
    kbListCalls,    \* list_knowledge_bases calls of the run
    \* clean_text
    cpc, cIn, cOnce, cTwice,
    \* process_wiki_document / html_to_markdown
    hpc, HAS_BS4, hDoc, hOut,
    \* process_faq_document
    fpc,            \* position in process_faq_document
    fIn,            \* the content read
    fIdx,           \* index of the pattern the loop is at
    qa_pairs,       \* the pairs kept
    fTried,         \* the patterns re.findall ran with, in order
    \* process_support_case
    kpc, kCase, kBody, kMeta,
    \* a batch: the wiki directory loop of main, process_support_cases
    bpc,            \* "idle", "loop", "sidecar", "done" or "raised"
    bKind,          \* "wiki" or "cases"
    bInputs,        \* the input documents, in processing order
    bIdx,           \* index of the document the loop is at
    processed,      \* number of documents processed
    fsText,         \* output directory: text file name -> input index
    fsMeta          \* output directory: sidecar name -> input index

remoteVars == <<kbs, dss, jobsStarted>>
runVars == <<pc, run, kb_id, ds_id, job_id, exitCode, kbObserved, kbPolls,
             kbCreated, dsListHit, dsCalls, jobStarts, jobPolls, lastJob,
             pollAfterFailed, statusLines, printedStats, printedReasons,
             syncFailedLine, setupComplete>>
histVars == <<kbCreateCalls, dsCreateCalls, kbReturned, kbInitially>>
arnVars == <<collection_arn, kbListCalls>>
provVars == <<remoteVars, runVars, histVars, arnVars>>
cleanVars == <<cpc, cIn, cOnce, cTwice>>
htmlVars == <<hpc, HAS_BS4, hDoc, hOut>>
faqVars == <<fpc, fIn, fIdx, qa_pairs, fTried>>
caseVars == <<kpc, kCase, kBody, kMeta>>
batchVars == <<bpc, bKind, bInputs, bIdx, processed, fsText, fsMeta>>
vars == <<provVars, cleanVars, htmlVars, faqVars, caseVars, batchVars>>
\* What each script leaves alone: the variables of the other scripts.
notProv == <<cleanVars, htmlVars, faqVars, caseVars, batchVars>>
notClean == <<provVars, htmlVars, faqVars, caseVars, batchVars>>
notHtml == <<provVars, cleanVars, faqVars, caseVars, batchVars>>
notFaq == <<provVars, cleanVars, htmlVars, caseVars, batchVars>>
notCase == <<provVars, cleanVars, htmlVars, faqVars, batchVars>>
notBatch == <<provVars, cleanVars, htmlVars, faqVars, caseVars>>

\* ------------------------------------------------ create-knowledge-base.py
\* f'{PROJECT_NAME}-kb' and a name that is not it.
KbName == "rag-pipeline-kb"
OtherKbName == "other-kb"
DsName == "support-cases"
OtherDsName == "other-ds"

KbStatuses == {"CREATING", "ACTIVE", "FAILED", "UPDATING"}
KbTerminal == {"ACTIVE", "FAILED"}
JobStatuses == {"STARTING", "IN_PROGRESS", "COMPLETE", "FAILED", "STOPPING"}
JobTerminal == {"COMPLETE", "FAILED"}
Reasons == {"schema mismatch", "access denied"}
NA == "N/A"
\* f"{n}" of a document count
DocCounts == {ToString(i) : i \in 0..MaxDocs}
ReasonLists == UNION {[1..n -> Reasons] : n \in 0..MaxReasons}
NoJob == [status |-> "none", scanned |-> NA, indexed |-> NA, reasons |-> <<>>]

\* A lookup that never matches (the list-before-create check left out).
FindByNameMissed(listing, name) == 0

RECURSIVE FindByName(_, _)
\* for x in listing: if x['name'] == name: return x[id]  -- 0 when none matches
FindByName(listing, name) ==
    IF listing = <<>> THEN 0
    ELSE IF Head(listing).name = name THEN Head(listing).id
    ELSE FindByName(Tail(listing), name)

\* The entry of a listing with identifier id.
Entry(listing, id) == CHOOSE x \in {listing[i] : i \in DOMAIN listing} : x.id = id

\* list_data_sources(knowledgeBaseId=kb): the data sources under kb.
DsListing(kb) == SelectSeq(dss, LAMBDA d : d.kb = kb)

\* A polling loop that takes FAILED for one more status to wait on.
KbLoopNextStuck(state) ==
    IF state = "ACTIVE" THEN "ds_list" ELSE "kb_poll"

\* The polling loop of create_knowledge_base leaves on any terminal status.
KbLoopNextLax(state) ==
    IF state \in KbTerminal THEN "ds_list" ELSE "kb_poll"

\* if state == 'ACTIVE': break / elif state == 'FAILED': sys.exit(1) / sleep
KbLoopNext(state) ==
    IF state = "ACTIVE" THEN "ds_list"
    ELSE IF state = "FAILED" THEN "exit"
    ELSE "kb_poll"

\* A sync loop that starts the job again when it failed.
SyncLoopNextRetry(state) ==
    IF state = "COMPLETE" THEN "sync_ret"
    ELSE IF state = "FAILED" THEN "sync_start"
    ELSE "sync_poll"

\* A sync loop that gives up waiting on a status it does not know.
SyncLoopNextEager(state) ==
    IF state \in {"COMPLETE", "STOPPING"} THEN "sync_ret"
    ELSE IF state = "FAILED" THEN "exit"
    ELSE "sync_poll"

\* if state == 'COMPLETE': break / elif state == 'FAILED': sys.exit(1) / sleep
SyncLoopNext(state) ==
    IF state = "COMPLETE" THEN "sync_ret"
    ELSE IF state = "FAILED" THEN "exit"
    ELSE "sync_poll"

\* for reason in failure: print(f"  Reason: {reason}")
SurfacedReasons(reasons) == reasons

\* The statistics printed with the two keys swapped.
SurfacedStatsSwapped(job) == <<job.indexed, job.scanned>>

\* stats.get('numberOfDocumentsScanned', 'N/A'), stats.get('numberOfNewDocumentsIndexed', 'N/A')
SurfacedStats(job) == <<job.scanned, job.indexed>>

\* The remote service before the first run: the named knowledge base may
\* exist, in any status, beside another one; a data source may exist.
InitKbs ==
    {<<>>, <<[id |-> 1, name |-> OtherKbName, status |-> "ACTIVE"]>>}
    \cup {<<[id |-> 1, name |-> KbName, status |-> s]>> :
            s \in {"CREATING", "ACTIVE", "FAILED"}}
    \cup {<<[id |-> 1, name |-> OtherKbName, status |-> "ACTIVE"],
            [id |-> 2, name |-> KbName, status |-> s]>> :
            s \in {"CREATING", "ACTIVE", "FAILED"}}

InitDss(k) ==
    IF k = <<>> THEN {<<>>}
    ELSE {<<>>} \cup {<<[id |-> 1, kb |-> k[i].id, name |-> n]>> :
                        i \in DOMAIN k, n \in {DsName, OtherDsName}}

\* A process at the top of main().
RunStart ==
    /\ pc = "resolve"
    /\ collection_arn = "unset"
    /\ kbListCalls = 0
    /\ kb_id = 0 /\ ds_id = 0 /\ job_id = 0
    /\ exitCode = "none"
    /\ kbObserved = "none"
    /\ kbPolls = 0
    /\ kbCreated = FALSE
    /\ dsListHit = "none"
    /\ dsCalls = 0
    /\ jobStarts = 0
    /\ jobPolls = 0
    /\ lastJob = NoJob
    /\ pollAfterFailed = FALSE
    /\ statusLines = 0
    /\ printedStats = <<>>
    /\ printedReasons = <<>>
    /\ syncFailedLine = FALSE
    /\ setupComplete = FALSE

InitProv ==
    /\ kbs \in InitKbs
    /\ dss \in InitDss(kbs)
    /\ jobsStarted = 0
    /\ run = 1
    /\ RunStart
    /\ kbCreateCalls = 0 /\ dsCreateCalls = 0
    /\ kbReturned = <<>>
    /\ kbInitially = (\E i \in DOMAIN kbs : kbs[i].name = KbName)

\* The provisioning variables of a specification that runs no provisioning.
IdleProv ==
    /\ kbs = <<>> /\ dss = <<>> /\ jobsStarted = 0
    /\ run = 0
    /\ RunStart
    /\ kbCreateCalls = 0 /\ dsCreateCalls = 0
    /\ kbReturned = <<>>
    /\ kbInitially = FALSE

\* The gate left out: the run goes on without a collection ARN.
ArnGateOpen(arn) == "kb_list"

\* if not collection_arn: sys.exit(1)
ArnGate(arn) == IF arn = "None" THEN "exit" ELSE "kb_list"

\* get_opensearch_arn: the output value when describe_stacks answers and
\* holds the key OpenSearchCollectionArn, None when the lookup raises or the
\* key is missing.
get_opensearch_arn(outcome) == IF outcome = "found" THEN "arn" ELSE "None"

\* create_knowledge_base: collection_arn = get_opensearch_arn(...);
\* if not collection_arn: sys.exit(1)
ResolveArn ==
    /\ pc = "resolve"
    /\ \E outcome \in {"found", "lookup_failed", "key_missing"} :
        /\ collection_arn' = get_opensearch_arn(outcome)
        /\ pc' = ArnGate(get_opensearch_arn(outcome))
        /\ exitCode' = IF ArnGate(get_opensearch_arn(outcome)) = "exit"
                       THEN "1" ELSE exitCode
    /\ UNCHANGED <<remoteVars, histVars, run, kb_id, ds_id, job_id, kbObserved,
                   kbPolls, kbCreated, dsListHit, dsCalls, jobStarts, jobPolls,
                   lastJob, pollAfterFailed, statusLines, printedStats,
                   printedReasons, syncFailedLine, setupComplete, kbListCalls>>

\* create_knowledge_base: list_knowledge_bases(), return the identifier of
\* the entry named f'{PROJECT_NAME}-kb' when there is one.
KbList ==
    /\ pc = "kb_list"
    /\ kbListCalls' = kbListCalls + 1
    /\ UNCHANGED collection_arn
    /\ LET hit == FindByName(kbs, KbName) IN
        IF hit # 0
        THEN /\ kb_id' = hit
             /\ kbObserved' = Entry(kbs, hit).status
             /\ kbReturned' = Append(kbReturned, hit)
             /\ pc' = "ds_list"
        ELSE /\ pc' = "kb_create"
             /\ UNCHANGED <<kb_id, kbObserved, kbReturned>>
    /\ UNCHANGED <<remoteVars, run, ds_id, job_id, exitCode, kbPolls, kbCreated,
                   dsListHit, dsCalls, jobStarts, jobPolls, lastJob,
                   pollAfterFailed, statusLines, printedStats, printedReasons,
                   syncFailedLine, setupComplete, kbCreateCalls, dsCreateCalls,
                   kbInitially>>

\* create_knowledge_base: bedrock_agent.create_knowledge_base(name=...); the
\* service adds a knowledge base, whatever exists already.
KbCreate ==
    /\ pc = "kb_create"
    /\ UNCHANGED arnVars
    /\ kbs' = Append(kbs, [id |-> Len(kbs) + 1, name |-> KbName,
                           status |-> "CREATING"])
    /\ kb_id' = Len(kbs) + 1
    /\ kbCreated' = TRUE
    /\ kbCreateCalls' = kbCreateCalls + 1
    /\ pc' = "kb_poll"
    /\ UNCHANGED <<dss, jobsStarted, run, ds_id, job_id, exitCode, kbObserved,
                   kbPolls, dsListHit, dsCalls, jobStarts, jobPolls, lastJob,
                   pollAfterFailed, statusLines, printedStats, printedReasons,
                   syncFailedLine, setupComplete, dsCreateCalls, kbReturned,
                   kbInitially>>

\* A counter that stops counting above MaxPolls when the service is not
\* capped, so that a loop that never ends has finitely many states.
Counted(n, capped) == IF capped \/ n <= MaxPolls + 1 THEN n + 1 ELSE n

\* create_knowledge_base: one turn of the while True loop around
\* get_knowledge_base, answered with status state. The service answers any
\* status while the knowledge base is not in a terminal one; capped: at most
\* MaxPolls non-terminal answers.
KbPollStep(state, capped) ==
    /\ pc = "kb_poll"
    /\ UNCHANGED arnVars
    /\ Entry(kbs, kb_id).status \in KbTerminal
          => state = Entry(kbs, kb_id).status
    /\ (capped /\ state \notin KbTerminal) => kbPolls < MaxPolls
    /\ kbs' = [i \in DOMAIN kbs |->
                 IF kbs[i].id = kb_id
                 THEN [kbs[i] EXCEPT !.status = state] ELSE kbs[i]]
    /\ kbObserved' = state
    /\ pc' = KbLoopNext(state)
    /\ exitCode' = IF KbLoopNext(state) = "exit" THEN "1" ELSE exitCode
    /\ kbReturned' = IF KbLoopNext(state) = "ds_list"
                     THEN Append(kbReturned, kb_id) ELSE kbReturned
    /\ kbPolls' = Counted(kbPolls, capped)
    /\ UNCHANGED <<dss, jobsStarted, run, kb_id, ds_id, job_id, kbCreated,
                   dsListHit, dsCalls, jobStarts, jobPolls, lastJob,
                   pollAfterFailed, statusLines, printedStats, printedReasons,
                   syncFailedLine, setupComplete, kbCreateCalls, dsCreateCalls,
                   kbInitially>>

KbPoll == \E state \in KbStatuses : KbPollStep(state, TRUE)

\* create_data_source: list_data_sources(knowledgeBaseId=kb_id), return the
\* identifier of the entry named 'support-cases' when there is one.
DsList ==
    /\ pc = "ds_list"
    /\ UNCHANGED arnVars
    /\ dsCalls' = dsCalls + 1
    /\ dsListHit' = IF \E i \in DOMAIN DsListing(kb_id) :
                            DsListing(kb_id)[i].name = DsName
                     THEN "hit" ELSE "miss"
    /\ LET hit == FindByName(DsListing(kb_id), DsName) IN
        IF hit # 0
        THEN ds_id' = hit /\ pc' = "sync_start"
        ELSE ds_id' = ds_id /\ pc' = "ds_create"
    /\ UNCHANGED <<remoteVars, histVars, run, kb_id, job_id, exitCode,
                   kbObserved, kbPolls, kbCreated, jobStarts, jobPolls, lastJob,
                   pollAfterFailed, statusLines, printedStats, printedReasons,
                   syncFailedLine, setupComplete>>

\* create_data_source: bedrock_agent.create_data_source(name='support-cases')
DsCreate ==
    /\ pc = "ds_create"
    /\ UNCHANGED arnVars
    /\ dss' = Append(dss, [id |-> Len(dss) + 1, kb |-> kb_id, name |-> DsName])
    /\ ds_id' = Len(dss) + 1
    /\ dsCalls' = dsCalls + 1
    /\ dsCreateCalls' = dsCreateCalls + 1
    /\ pc' = "sync_start"
    /\ UNCHANGED <<kbs, jobsStarted, run, kb_id, job_id, exitCode, kbObserved,
                   kbPolls, kbCreated, dsListHit, jobStarts, jobPolls, lastJob,
                   pollAfterFailed, statusLines, printedStats, printedReasons,
                   syncFailedLine, setupComplete, kbCreateCalls, kbReturned,
                   kbInitially>>

\* sync_data_source: start_ingestion_job(knowledgeBaseId, dataSourceId)
SyncStart ==
    /\ pc = "sync_start"
    /\ UNCHANGED arnVars
    /\ jobsStarted' = jobsStarted + 1
    /\ job_id' = jobsStarted + 1
    /\ jobStarts' = jobStarts + 1
    /\ pc' = "sync_poll"
    /\ UNCHANGED <<kbs, dss, histVars, run, kb_id, ds_id, exitCode, kbObserved,
                   kbPolls, kbCreated, dsListHit, dsCalls, jobPolls, lastJob,
                   pollAfterFailed, statusLines, printedStats, printedReasons,
                   syncFailedLine, setupComplete>>

\* sync_data_source: one turn of the while True loop around
\* get_ingestion_job, answered with status state, statistics s and n and
\* failure reasons rs. The service answers any status, statistics with a
\* COMPLETE one and failure reasons with a FAILED one; capped: at most
\* MaxPolls non-terminal answers.
SyncPollStep(state, s, n, rs, capped) ==
    /\ pc = "sync_poll"
    /\ UNCHANGED arnVars
    /\ (capped /\ state \notin JobTerminal) => statusLines < MaxPolls
    /\ state # "COMPLETE" => s = NA /\ n = NA
    /\ state # "FAILED" => rs = <<>>
    /\ LET job == [status |-> state, scanned |-> s, indexed |-> n,
                   reasons |-> rs] IN
        /\ lastJob' = job
        /\ printedStats' = IF state = "COMPLETE" THEN SurfacedStats(job)
                           ELSE printedStats
        /\ syncFailedLine' = (syncFailedLine \/ state = "FAILED")
        /\ printedReasons' = IF state = "FAILED"
                             THEN printedReasons \o SurfacedReasons(rs)
                             ELSE printedReasons
        /\ statusLines' = IF state \in {"COMPLETE", "FAILED"}
                          THEN statusLines
                          ELSE Counted(statusLines, capped)
        /\ pc' = SyncLoopNext(state)
        /\ exitCode' = IF SyncLoopNext(state) = "exit" THEN "1" ELSE exitCode
    /\ jobPolls' = Counted(jobPolls, capped)
    /\ pollAfterFailed' = (pollAfterFailed \/ lastJob.status = "FAILED")
    /\ UNCHANGED <<remoteVars, histVars, run, kb_id, ds_id, job_id, kbObserved,
                   kbPolls, kbCreated, dsListHit, dsCalls, jobStarts,
                   setupComplete>>

SyncPoll ==
    \E state \in JobStatuses, s \in DocCounts \cup {NA},
       n \in DocCounts \cup {NA}, rs \in ReasonLists :
        SyncPollStep(state, s, n, rs, TRUE)

\* sync_data_source returns job_id; main prints "Setup Complete!" and ends.
MainDone ==
    /\ pc = "sync_ret"
    /\ UNCHANGED arnVars
    /\ setupComplete' = TRUE
    /\ exitCode' = "0"
    /\ pc' = "done"
    /\ UNCHANGED <<remoteVars, histVars, run, kb_id, ds_id, job_id, kbObserved,
                   kbPolls, kbCreated, dsListHit, dsCalls, jobStarts, jobPolls,
                   lastJob, pollAfterFailed, statusLines, printedStats,
                   printedReasons, syncFailedLine>>

\* The script is run again against the same remote service.
NewRun ==
    /\ pc \in {"done", "exit"}
    /\ run < MaxRuns
    /\ run' = run + 1
    /\ pc' = "resolve"
    /\ collection_arn' = "unset"
    /\ kbListCalls' = 0
    /\ kb_id' = 0 /\ ds_id' = 0 /\ job_id' = 0
    /\ exitCode' = "none"
    /\ kbObserved' = "none"
    /\ kbPolls' = 0
    /\ kbCreated' = FALSE
    /\ dsListHit' = "none"
    /\ dsCalls' = 0
    /\ jobStarts' = 0
    /\ jobPolls' = 0
    /\ lastJob' = NoJob
    /\ pollAfterFailed' = FALSE
    /\ statusLines' = 0
    /\ printedStats' = <<>>
    /\ printedReasons' = <<>>
    /\ syncFailedLine' = FALSE
    /\ setupComplete' = FALSE
    /\ UNCHANGED <<remoteVars, histVars>>

\* The other scripts' variables, untouched by a provisioning run.
IdleClean == cpc = "idle" /\ cIn = <<>> /\ cOnce = <<>> /\ cTwice = <<>>
IdleHtml == hpc = "idle" /\ HAS_BS4 = FALSE /\ hDoc = <<>> /\ hOut = <<>>

IdleFaq ==
    fpc = "idle" /\ fIn = <<>> /\ fIdx = 0 /\ qa_pairs = <<>> /\ fTried = <<>>
IdleCase == kpc = "idle" /\ kCase = <<>> /\ kBody = <<>> /\ kMeta = <<>>
IdleBatch ==
    /\ bpc = "idle" /\ bKind = "none" /\ bInputs = <<>> /\ bIdx = 0
    /\ processed = 0 /\ fsText = <<>> /\ fsMeta = <<>>

Init == InitProv /\ IdleClean /\ IdleHtml /\ IdleFaq /\ IdleCase /\ IdleBatch

Next ==
    \/ ResolveArn /\ UNCHANGED notProv
    \/ KbList /\ UNCHANGED notProv
    \/ KbCreate /\ UNCHANGED notProv
    \/ KbPoll /\ UNCHANGED notProv
    \/ DsList /\ UNCHANGED notProv
    \/ DsCreate /\ UNCHANGED notProv
    \/ SyncStart /\ UNCHANGED notProv
    \/ SyncPoll /\ UNCHANGED notProv
    \/ MainDone /\ UNCHANGED notProv
    \/ NewRun /\ UNCHANGED notProv

Spec == Init /\ [][Next]_vars

\* One run against a service that may answer non-terminal statuses without
\* end.
KbPollLive == \E state \in KbStatuses : KbPollStep(state, FALSE)
SyncPollLive ==
    \E state \in JobStatuses, s \in DocCounts \cup {NA},
       n \in DocCounts \cup {NA}, rs \in ReasonLists :
        SyncPollStep(state, s, n, rs, FALSE)
\* A poll the service answers with a terminal status.
KbPollTerminal == \E state \in KbTerminal : KbPollStep(state, FALSE)
SyncPollTerminal ==
    \E state \in JobTerminal, s \in DocCounts \cup {NA},
       n \in DocCounts \cup {NA}, rs \in ReasonLists :
        SyncPollStep(state, s, n, rs, FALSE)

NextLive ==
    \/ ResolveArn /\ UNCHANGED notProv
    \/ KbList /\ UNCHANGED notProv
    \/ KbCreate /\ UNCHANGED notProv
    \/ KbPollLive /\ UNCHANGED notProv
    \/ DsList /\ UNCHANGED notProv
    \/ DsCreate /\ UNCHANGED notProv
    \/ SyncStart /\ UNCHANGED notProv
    \/ SyncPollLive /\ UNCHANGED notProv
    \/ MainDone /\ UNCHANGED notProv

\* The process keeps running (the loops sleep and poll again), and the
\* service is fair: a polled status is terminal again and again.
SpecLive ==
    /\ Init /\ [][NextLive]_vars
    /\ WF_vars(NextLive)
    /\ SF_vars(KbPollTerminal /\ UNCHANGED notProv)
    /\ SF_vars(SyncPollTerminal /\ UNCHANGED notProv)

\* ------------------------------------------------ claims on provisioning
\* The run is past create_knowledge_base: the call returned an identifier.
AfterKb ==
    \/ pc \in {"ds_list", "ds_create", "sync_start", "sync_poll", "sync_ret",
               "done"}
    \/ pc = "exit" /\ jobStarts > 0

\* C1: in every run of main no data-source list/create call is issued before
\* the knowledge base was observed with status ACTIVE, and
\* start_ingestion_job is not issued before a data source identifier was
\* obtained, whatever the remote state at the start of the run.
C1_CausalOrder ==
    /\ dsCalls > 0 => kbObserved = "ACTIVE"
    /\ jobStarts > 0 => ds_id # 0

\* C2: create_knowledge_base is idempotent: invoked twice in sequence against
\* the same remote service, both invocations return the same identifier and
\* the remote create is issued exactly once in total (not at all when the
\* knowledge base existed before the first invocation).
C2_Idempotent ==
    Len(kbReturned) >= 2 =>
        /\ \A i, j \in DOMAIN kbReturned : kbReturned[i] = kbReturned[j]
        /\ kbCreateCalls = IF kbInitially THEN 0 ELSE 1

C2_Witness ==
    /\ Len(kbReturned) = 2
    /\ ~kbInitially
    /\ kbCreateCalls = 1
    /\ kbs # <<>> /\ Head(kbs).name = OtherKbName

\* C3: after create_knowledge_base issued a create, the polling loop returns
\* the identifier only when the fetched status is ACTIVE; on FAILED the
\* process ends with a non-zero outcome and issues no data-source call and no
\* start_ingestion_job; on every other status it is still polling, however
\* many polls it made.
C3_KbPolling ==
    kbCreated =>
        /\ AfterKb => kbObserved = "ACTIVE"
        /\ kbObserved = "ACTIVE" => AfterKb
        /\ kbObserved = "FAILED" =>
              pc = "exit" /\ exitCode = "1" /\ dsCalls = 0 /\ jobStarts = 0
        /\ kbObserved \notin KbTerminal => pc = "kb_poll" /\ exitCode = "none"

C3_Witness ==
    /\ kbCreated
    /\ kbPolls > MaxPolls
    /\ kbObserved = "FAILED"
    /\ pc = "exit"

\* C4: across sequential runs at most one knowledge base named
\* '<PROJECT_NAME>-kb' and at most one data source named 'support-cases'
\* under it exist; create_data_source creates only when the listing of the
\* knowledge base holds no 'support-cases', and otherwise returns the listed
\* identifier without creating.
C4_NoDuplicates ==
    /\ Cardinality({i \in DOMAIN kbs : kbs[i].name = KbName}) <= 1
    /\ \A k \in DOMAIN kbs :
          Cardinality({i \in DOMAIN dss :
                         dss[i].kb = kbs[k].id /\ dss[i].name = DsName}) <= 1
    /\ pc = "ds_create" => dsListHit = "miss"
    /\ dsListHit = "hit" =>
          /\ dsCalls = 1
          /\ \E i \in DOMAIN dss :
                dss[i].id = ds_id /\ dss[i].kb = kb_id /\ dss[i].name = DsName

C4_Witness ==
    /\ run = 2
    /\ pc = "done"
    /\ kbCreateCalls = 1
    /\ dsCreateCalls = 1
    /\ dsListHit = "hit"

\* C5: when the polling of sync_data_source ends in FAILED, every reported
\* failure reason is surfaced verbatim and in order, the process ends with a
\* non-zero outcome, start_ingestion_job was issued exactly once in the run
\* and no get_ingestion_job follows the FAILED status.
C5_SyncFailed ==
    /\ ~pollAfterFailed
    /\ lastJob.status = "FAILED" =>
          /\ pc = "exit" /\ exitCode = "1"
          /\ syncFailedLine
          /\ printedReasons = lastJob.reasons
          /\ jobStarts = 1
          /\ ~setupComplete

C5_Witness ==
    /\ lastJob.status = "FAILED"
    /\ lastJob.reasons = <<"schema mismatch", "access denied">>
    /\ statusLines = 2

\* C6: when the polling of sync_data_source sees k non-terminal statuses and
\* then COMPLETE with statistics {scanned: s, indexed: n}, it issued exactly
\* k+1 polls, ends in success returning the job identifier, and reports
\* exactly s and n.
C6_SyncComplete ==
    (lastJob.status = "COMPLETE" /\ lastJob.scanned # NA /\ lastJob.indexed # NA)
        => /\ jobPolls = statusLines + 1
           /\ pc \in {"sync_ret", "done"}
           /\ exitCode # "1"
           /\ job_id = jobsStarted /\ job_id # 0
           /\ printedStats = <<lastJob.scanned, lastJob.indexed>>
           /\ printedReasons = <<>> /\ ~syncFailedLine

C6_Witness ==
    /\ lastJob.status = "COMPLETE"
    /\ lastJob.scanned = "1" /\ lastJob.indexed = "0"
    /\ statusLines = 2
    /\ pc = "done"

\* C7: sync_data_source never returns, and main never reports 'Setup
\* Complete', unless the last observed job status is COMPLETE; while the
\* polled statuses are non-terminal it keeps polling and reports no success
\* or partial result.
C7_PollToTerminal ==
    /\ pc \in {"sync_ret", "done"} => lastJob.status = "COMPLETE"
    /\ setupComplete => lastJob.status = "COMPLETE"
    /\ (jobPolls > 0 /\ lastJob.status \notin JobTerminal) =>
          /\ pc = "sync_poll"
          /\ printedStats = <<>> /\ printedReasons = <<>>
          /\ ~setupComplete /\ exitCode = "none"

C7_Witness ==
    /\ pc = "sync_poll"
    /\ jobPolls = 2
    /\ lastJob.status = "STOPPING"

\* ------------------------------------------------- prepare-data-for-rag.py
\* Text: a sequence of one-character strings.
EditMarker == <<"[", "e", "d", "i", "t", "]">>
CitationMarker == <<"[", "c", "i", "t", "a", "t", "i", "o", "n", " ",
                    "n", "e", "e", "d", "e", "d", "]">>
\* The characters str.strip() removes, among those of the model.
Whitespace == {" ", "\n", "\r", "\t"}

\* re.IGNORECASE: the letter a character is matched as.
Lower(c) ==
    CASE c = "E" -> "e" [] c = "D" -> "d" [] c = "I" -> "i" [] c = "T" -> "t"
      [] c = "C" -> "c" [] c = "A" -> "a" [] c = "O" -> "o" [] c = "N" -> "n"
      [] OTHER -> c

RECURSIVE RunLen(_, _, _)
\* The length of the run of character c of text t that starts at index i.
RunLen(t, i, c) ==
    IF i > Len(t) \/ t[i] # c THEN 0 ELSE 1 + RunLen(t, i + 1, c)

Repeat(c, n) == [k \in 1..n |-> c]

MinOf(S) == CHOOSE x \in S : \A y \in S : x <= y
MaxOf(S) == CHOOSE x \in S : \A y \in S : x >= y

RECURSIVE CollapseRuns(_, _, _, _, _)
\* re.sub(c{least,}, c * keep, t) from index i on: every maximal run of at
\* "least" characters c becomes "keep" of them. The scan goes from one such
\* run to the next.
CollapseRuns(t, i, c, least, keep) ==
    LET starts == {j \in i..Len(t) : RunLen(t, j, c) >= least} IN
    IF starts = {} THEN SubSeq(t, i, Len(t))
    ELSE LET j == MinOf(starts) IN
         SubSeq(t, i, j - 1) \o Repeat(c, keep)
             \o CollapseRuns(t, j + RunLen(t, j, c), c, least, keep)

\* The pattern (a literal) matches text t at index i; fold: ignoring case.
MatchesAt(t, i, pattern, fold) ==
    /\ i + Len(pattern) - 1 <= Len(t)
    /\ \A k \in 1..Len(pattern) :
          IF fold THEN Lower(t[i + k - 1]) = Lower(pattern[k])
          ELSE t[i + k - 1] = pattern[k]

RECURSIVE ReplaceAll(_, _, _, _, _)
\* re.sub(pattern, by, t) / t.replace(pattern, by) from index i on: one pass,
\* left to right, over the non-overlapping matches of the input. The scan
\* goes from one match to the next.
ReplaceAll(t, i, pattern, by, fold) ==
    LET starts == {j \in i..Len(t) : MatchesAt(t, j, pattern, fold)} IN
    IF starts = {} THEN SubSeq(t, i, Len(t))
    ELSE LET j == MinOf(starts) IN
         SubSeq(t, i, j - 1) \o by
             \o ReplaceAll(t, j + Len(pattern), pattern, by, fold)

RECURSIVE LStrip(_)
LStrip(t) ==
    IF t # <<>> /\ Head(t) \in Whitespace THEN LStrip(Tail(t)) ELSE t

RECURSIVE RStrip(_)
RStrip(t) ==
    IF t # <<>> /\ t[Len(t)] \in Whitespace
    THEN RStrip(SubSeq(t, 1, Len(t) - 1)) ELSE t

\* text.strip()
Strip(t) == RStrip(LStrip(t))

\* def clean_text(text), statement by statement.
clean_text(text) ==
    LET t1 == CollapseRuns(text, 1, "\n", 3, 2)
        t2 == CollapseRuns(t1, 1, " ", 2, 1)
        t3 == ReplaceAll(t2, 1, EditMarker, <<>>, TRUE)
        t4 == ReplaceAll(t3, 1, CitationMarker, <<>>, TRUE)
        t5 == ReplaceAll(t4, 1, <<"\r", "\n">>, <<"\n">>, FALSE)
    IN  Strip(t5)

\* The pieces the input texts are put together from.
MaxPieces == 5
Pieces ==
    { <<"a">>, <<" ">>, <<"\n">>, <<"\r">>, <<"\r", "\n">>,
      <<"[", "E", "d", "i", "t", "]">>, <<"[", "e", "d">>, <<"i", "t", "]">>,
      CitationMarker }

RECURSIVE Concat(_)
Concat(ps) == IF ps = <<>> THEN <<>> ELSE Head(ps) \o Concat(Tail(ps))

\* The texts of at most most pieces.
CleanInputs(most) ==
    {Concat(ps) : ps \in UNION {[1..n -> Pieces] : n \in 0..most}}

InitClean == cpc = "in" /\ cIn \in CleanInputs(MaxPieces) /\ cOnce = <<>> /\ cTwice = <<>>

\* text = clean_text(x)
CleanOnce ==
    /\ cpc = "in"
    /\ cOnce' = clean_text(cIn)
    /\ cpc' = "once"
    /\ UNCHANGED <<cIn, cTwice>>

\* clean_text applied to its own result
CleanTwice ==
    /\ cpc = "once"
    /\ cTwice' = clean_text(cOnce)
    /\ cpc' = "twice"
    /\ UNCHANGED <<cIn, cOnce>>

NextClean ==
    \/ CleanOnce /\ UNCHANGED notClean
    \/ CleanTwice /\ UNCHANGED notClean

InitC == IdleProv /\ InitClean /\ IdleHtml /\ IdleFaq /\ IdleCase /\ IdleBatch

SpecClean == InitC /\ [][NextClean]_vars

\* Text t holds the text p somewhere.
Contains(t, p) == \E i \in 1..(Len(t) + 1) : MatchesAt(t, i, p, FALSE)
ContainsFolded(t, p) == \E i \in 1..(Len(t) + 1) : MatchesAt(t, i, p, TRUE)

\* C8: clean_text is idempotent: clean_text(clean_text(x)) = clean_text(x)
\* for every input text x.
C8_Idempotent == cpc = "twice" => cTwice = cOnce

\* C9: the result of clean_text holds no run of 3 or more newlines, no run of
\* 2 or more spaces, no '[edit]' or '[citation needed]' in any letter case,
\* no CRLF and no leading or trailing whitespace; the empty string gives the
\* empty string.
C9_Normalized ==
    cpc # "in" =>
        /\ ~Contains(cOnce, <<"\n", "\n", "\n">>)
        /\ ~Contains(cOnce, <<" ", " ">>)
        /\ ~ContainsFolded(cOnce, EditMarker)
        /\ ~ContainsFolded(cOnce, CitationMarker)
        /\ ~Contains(cOnce, <<"\r", "\n">>)
        /\ cOnce # <<>> =>
              Head(cOnce) \notin Whitespace /\ cOnce[Len(cOnce)] \notin Whitespace
        /\ cIn = <<>> => cOnce = <<>>

\* ---------------------------------- html_to_markdown, process_wiki_document
\* A markup document: a sequence of tokens, each a one-character string of
\* text or a whole tag as written. name is the tag's name in lower case (what
\* content.lower() and the HTML parser see).
TagTable ==
    { [tok |-> "<html>", name |-> "html", open |-> TRUE],
      [tok |-> "</html>", name |-> "html", open |-> FALSE],
      [tok |-> "<body>", name |-> "body", open |-> TRUE],
      [tok |-> "</body>", name |-> "body", open |-> FALSE],
      [tok |-> "<script>", name |-> "script", open |-> TRUE],
      [tok |-> "</script>", name |-> "script", open |-> FALSE],
      [tok |-> "<style>", name |-> "style", open |-> TRUE],
      [tok |-> "</style>", name |-> "style", open |-> FALSE],
      [tok |-> "<nav>", name |-> "nav", open |-> TRUE],
      [tok |-> "</nav>", name |-> "nav", open |-> FALSE],
      [tok |-> "<footer>", name |-> "footer", open |-> TRUE],
      [tok |-> "</footer>", name |-> "footer", open |-> FALSE],
      [tok |-> "<header>", name |-> "header", open |-> TRUE],
      [tok |-> "</header>", name |-> "header", open |-> FALSE],
      [tok |-> "<aside>", name |-> "aside", open |-> TRUE],
      [tok |-> "</aside>", name |-> "aside", open |-> FALSE],
      [tok |-> "<h1>", name |-> "h1", open |-> TRUE],
      [tok |-> "</h1>", name |-> "h1", open |-> FALSE],
      [tok |-> "<h2>", name |-> "h2", open |-> TRUE],
      [tok |-> "</h2>", name |-> "h2", open |-> FALSE],
      [tok |-> "<p>", name |-> "p", open |-> TRUE],
      [tok |-> "</p>", name |-> "p", open |-> FALSE],
      [tok |-> "<ul>", name |-> "ul", open |-> TRUE],
      [tok |-> "</ul>", name |-> "ul", open |-> FALSE],
      [tok |-> "<ol>", name |-> "ol", open |-> TRUE],
      [tok |-> "</ol>", name |-> "ol", open |-> FALSE],
      [tok |-> "<li>", name |-> "li", open |-> TRUE],
      [tok |-> "</li>", name |-> "li", open |-> FALSE],
      [tok |-> "<pre>", name |-> "pre", open |-> TRUE],
      [tok |-> "</pre>", name |-> "pre", open |-> FALSE],
      [tok |-> "<code>", name |-> "code", open |-> TRUE],
      [tok |-> "</code>", name |-> "code", open |-> FALSE],
      [tok |-> "<blockquote>", name |-> "blockquote", open |-> TRUE],
      [tok |-> "</blockquote>", name |-> "blockquote", open |-> FALSE],
      [tok |-> "<div>", name |-> "div", open |-> TRUE],
      [tok |-> "</div>", name |-> "div", open |-> FALSE],
      [tok |-> "<HTML>", name |-> "html", open |-> TRUE],
      [tok |-> "</HTML>", name |-> "html", open |-> FALSE],
      [tok |-> "<SCRIPT>", name |-> "script", open |-> TRUE],
      [tok |-> "</SCRIPT>", name |-> "script", open |-> FALSE] }

TagToks == {r.tok : r \in TagTable}
IsTag(t) == t \in TagToks
Info(t) == CHOOSE r \in TagTable : r.tok = t
IsOpenTag(t) == IsTag(t) /\ Info(t).open
IsCloseTag(t) == IsTag(t) /\ ~Info(t).open
NameOf(t) == Info(t).name

\* '<html' in content.lower() or '<body' in content.lower()
IsMarkup(content) ==
    \E i \in DOMAIN content :
        IsOpenTag(content[i]) /\ NameOf(content[i]) \in {"html", "body"}

RECURSIVE FirstAt(_, _, _)
\* The first index from i on where doc holds the token tok; 0 when none.
FirstAt(doc, i, tok) ==
    IF i > Len(doc) THEN 0
    ELSE IF doc[i] = tok THEN i
    ELSE FirstAt(doc, i + 1, tok)

RECURSIVE RegexDropBlocks(_, _, _, _)
\* re.sub(r'<script[^>]*>.*?</script>', '', doc, flags=re.DOTALL) from index
\* i on: the tags are matched as written, in lower case, and a match runs
\* from an opening tag to the first closing tag after it.
RegexDropBlocks(doc, i, openTok, closeTok) ==
    IF i > Len(doc) THEN <<>>
    ELSE IF doc[i] = openTok /\ FirstAt(doc, i + 1, closeTok) # 0
         THEN RegexDropBlocks(doc, FirstAt(doc, i + 1, closeTok) + 1,
                              openTok, closeTok)
         ELSE <<doc[i]>> \o RegexDropBlocks(doc, i + 1, openTok, closeTok)

\* re.sub(r'<[^>]+>', '', text)
StripTags(doc) == SelectSeq(doc, LAMBDA t : ~IsTag(t))

\* html_to_markdown without BeautifulSoup (if not HAS_BS4).
html_to_markdown_regex(html_content) ==
    LET t1 == RegexDropBlocks(html_content, 1, "<script>", "</script>")
        t2 == RegexDropBlocks(t1, 1, "<style>", "</style>")
    IN  clean_text(StripTags(t2))

\* soup.find_all([...]) of the elements to discard and of the block elements.
Unwanted == {"script", "style", "nav", "footer", "header", "aside"}
BlockTags == {"h1", "h2", "p", "ul", "ol", "pre", "code", "blockquote"}

RECURSIVE CloseScan(_, _, _, _)
\* The index of the closing tag of the element "name" entered "depth" times
\* before index j; Len(doc) + 1 when the document ends first.
CloseScan(doc, j, name, depth) ==
    IF j > Len(doc) THEN j
    ELSE IF IsOpenTag(doc[j]) /\ NameOf(doc[j]) = name
         THEN CloseScan(doc, j + 1, name, depth + 1)
    ELSE IF IsCloseTag(doc[j]) /\ NameOf(doc[j]) = name
         THEN IF depth = 1 THEN j ELSE CloseScan(doc, j + 1, name, depth - 1)
    ELSE CloseScan(doc, j + 1, name, depth)

\* The closing tag of the element opened at index i, and the element's content.
MatchClose(doc, i) == CloseScan(doc, i + 1, NameOf(doc[i]), 1)
Inner(doc, i) == SubSeq(doc, i + 1, MatchClose(doc, i) - 1)

RECURSIVE Decompose(_, _)
\* for element in soup.find_all(['script', ...]): element.decompose()
Decompose(doc, i) ==
    IF i > Len(doc) THEN <<>>
    ELSE IF IsOpenTag(doc[i]) /\ NameOf(doc[i]) \in Unwanted
         THEN Decompose(doc, MatchClose(doc, i) + 1)
         ELSE <<doc[i]>> \o Decompose(doc, i + 1)

RECURSIVE TextRun(_, _)
\* The length of the text node that starts at index i.
TextRun(doc, i) ==
    IF i > Len(doc) \/ IsTag(doc[i]) THEN 0 ELSE 1 + TextRun(doc, i + 1)

RECURSIVE GetTextStrip(_, _)
\* element.get_text(strip=True): the text nodes, each stripped, joined by ''.
GetTextStrip(inner, i) ==
    IF i > Len(inner) THEN <<>>
    ELSE LET r == TextRun(inner, i) IN
         IF r = 0 THEN GetTextStrip(inner, i + 1)
         ELSE Strip(SubSeq(inner, i, i + r - 1)) \o GetTextStrip(inner, i + r)

\* element.get_text(): the text nodes as they are.
GetText(inner) == StripTags(inner)

\* The number of elements open around index j of inner.
Depth(inner, j) ==
    Cardinality({k \in 1..(j - 1) : IsOpenTag(inner[k])})
        - Cardinality({k \in 1..(j - 1) : IsCloseTag(inner[k])})

RECURSIVE ListLines(_, _)
\* for li in element.find_all('li', recursive=False): "- " + li text
ListLines(inner, j) ==
    IF j > Len(inner) THEN <<>>
    ELSE IF inner[j] = "<li>" /\ Depth(inner, j) = 0
         THEN <<(<<"-", " ">> \o GetTextStrip(Inner(inner, j), 1))>>
                \o ListLines(inner, j + 1)
         ELSE ListLines(inner, j + 1)

\* "\n```\n" of the fenced block; bt stands for one backtick character.
Fence == <<"\n", "bt", "bt", "bt", "\n">>

HeadingLevel(name) == IF name = "h1" THEN 1 ELSE 2

\* The entries one element appends to markdown_lines.
ElementLines(doc, i) ==
    LET name == NameOf(doc[i])
        text == GetTextStrip(Inner(doc, i), 1)
    IN  IF name \in {"h1", "h2"}
        THEN <<(<<"\n">> \o Repeat("#", HeadingLevel(name)) \o <<" ">>
                  \o text \o <<"\n">>)>>
        ELSE IF name = "p"
        THEN IF text # <<>> THEN <<(<<"\n">> \o text \o <<"\n">>)>> ELSE <<>>
        ELSE IF name \in {"ul", "ol"}
        THEN ListLines(Inner(doc, i), 1)
        ELSE IF name = "pre"
        THEN <<(Fence \o GetText(Inner(doc, i))
                  \o Fence)>>
        ELSE IF name = "blockquote"
        THEN <<(<<"\n", ">", " ">> \o text \o <<"\n">>)>>
        ELSE <<>>

RECURSIVE MarkdownLines(_, _)
\* for element in soup.find_all(['h1', ..., 'blockquote']): in document order
MarkdownLines(doc, i) ==
    IF i > Len(doc) THEN <<>>
    ELSE IF IsOpenTag(doc[i]) /\ NameOf(doc[i]) \in BlockTags
         THEN ElementLines(doc, i) \o MarkdownLines(doc, i + 1)
         ELSE MarkdownLines(doc, i + 1)

RECURSIVE Join(_)
\* '\n'.join(lines)
Join(lines) ==
    IF lines = <<>> THEN <<>>
    ELSE IF Len(lines) = 1 THEN Head(lines)
    ELSE Head(lines) \o <<"\n">> \o Join(Tail(lines))

\* html_to_markdown with BeautifulSoup.
html_to_markdown_bs4(html_content) ==
    clean_text(Join(MarkdownLines(Decompose(html_content, 1), 1)))

\* def html_to_markdown(html_content)
html_to_markdown(html_content, has_bs4) ==
    IF ~has_bs4 THEN html_to_markdown_regex(html_content)
    ELSE html_to_markdown_bs4(html_content)

\* The documents: up to MaxBlocks blocks, bare or inside <html><body>.
MaxBlocks == 3
ScriptText == "S"
ParagraphText == "P"
Blocks ==
    { <<"<script>", ScriptText, "</script>">>,
      <<"<SCRIPT>", ScriptText, "</SCRIPT>">>,
      <<"<p>", ParagraphText, "</p>">>,
      <<"<header>", "<p>", "Q", "</p>", "</header>">>,
      <<"<h1>", "H", "</h1>">>,
      <<"<ul>", "<li>", "L", "</li>", "</ul>">>,
      <<"<blockquote>", "<p>", "B", "</p>", "</blockquote>">>,
      <<" ">> }

Wrap(w, blocks) ==
    IF w = "html" THEN <<"<html>", "<body>">> \o blocks \o <<"</body>", "</html>">>
    ELSE IF w = "HTML" THEN <<"<HTML>">> \o blocks \o <<"</HTML>">>
    ELSE blocks

\* The documents of at most most blocks.
HtmlDocs(most) ==
    {Wrap(w, Concat(bs)) : w \in {"html", "HTML", "none"},
                           bs \in UNION {[1..n -> Blocks] : n \in 0..most}}

InitHtml ==
    /\ hpc = "in"
    /\ HAS_BS4 \in BOOLEAN
    /\ hDoc \in HtmlDocs(MaxBlocks)
    /\ hOut = <<>>

\* process_wiki_document: the content holds '<html' or '<body'.
WikiMarkup ==
    /\ hpc = "in"
    /\ IsMarkup(hDoc)
    /\ hOut' = html_to_markdown(hDoc, HAS_BS4)
    /\ hpc' = "markup"
    /\ UNCHANGED <<HAS_BS4, hDoc>>

\* process_wiki_document: else: processed_content = clean_text(content)
WikiPlain ==
    /\ hpc = "in"
    /\ ~IsMarkup(hDoc)
    /\ hOut' = clean_text(hDoc)
    /\ hpc' = "plain"
    /\ UNCHANGED <<HAS_BS4, hDoc>>

NextHtml ==
    \/ WikiMarkup /\ UNCHANGED notHtml
    \/ WikiPlain /\ UNCHANGED notHtml

InitH == IdleProv /\ IdleClean /\ InitHtml /\ IdleFaq /\ IdleCase /\ IdleBatch

SpecHtml == InitH /\ [][NextHtml]_vars

\* The document holds a script block, and a paragraph outside the regions
\* that are discarded.
HasScriptBlock(doc) ==
    \E i \in DOMAIN doc : IsOpenTag(doc[i]) /\ NameOf(doc[i]) = "script"
HasParagraph(doc) ==
    \E i \in DOMAIN doc : doc[i] = "<p>" /\ Inner(doc, i) = <<ParagraphText>>

\* C10: for a markup input with a script block and a paragraph, the output
\* of the markup path (markup detection, then html_to_markdown with or
\* without the HTML parser) holds the paragraph's text and never the script
\* block's text.
C10_ScriptDiscarded ==
    (hpc = "markup" /\ HasScriptBlock(hDoc) /\ HasParagraph(hDoc)) =>
        /\ Contains(hOut, <<ParagraphText>>)
        /\ ~Contains(hOut, <<ScriptText>>)

\* ------------------------------------------------------------------- C18
\* C18: when the OpenSearch collection ARN cannot be resolved (the stack
\* lookup fails or the output key is missing), create_knowledge_base ends the
\* run with a non-zero outcome before any remote index call: no
\* list_knowledge_bases, no create_knowledge_base, no data-source call and no
\* start_ingestion_job is issued in that run.
C18_NoArnNoCalls ==
    collection_arn = "None" =>
        /\ pc = "exit" /\ exitCode = "1"
        /\ kbListCalls = 0 /\ ~kbCreated /\ kbPolls = 0
        /\ dsCalls = 0 /\ jobStarts = 0 /\ jobPolls = 0
        /\ ~setupComplete

C18_Witness ==
    /\ collection_arn = "None"
    /\ pc = "exit"
    /\ run = 2
    /\ kbCreateCalls = 1

\* ------------------------------------------------------------------- C17
\* C17: when the knowledge base status eventually becomes ACTIVE or FAILED
\* and the ingestion job status eventually becomes COMPLETE or FAILED, every
\* run of main eventually ends, with the completion report or a non-zero
\* exit; a run leaves a polling loop only on a terminal status, so a status
\* that stays non-terminal forever keeps it from ending.
C17_Terminates ==
    /\ (pc = "resolve") ~> (pc \in {"done", "exit"})
    /\ [][/\ (pc = "kb_poll" /\ pc' # "kb_poll") => kbObserved' \in KbTerminal
          /\ (pc = "sync_poll" /\ pc' # "sync_poll")
                => lastJob'.status \in JobTerminal
          /\ (exitCode = "none" /\ exitCode' # "none")
                => pc' \in {"done", "exit"}]_vars

C17_Witness ==
    /\ pc = "done"
    /\ kbCreated /\ kbPolls > MaxPolls + 1
    /\ statusLines > MaxPolls

\* ------------------------------------------------- process_faq_document
\* Texts are sequences of characters, as for clean_text.
MaxLines == 3

\* qa_patterns, in the order of the list. Each pattern is
\*   label \s* (.+?) mid [\s*] (.+?) (?=look|$)
\* label, mid and look are literal texts; ws2 tells whether \s* follows mid.
qa_patterns ==
    << [label |-> <<"Q", ":">>, mid |-> <<"\n", "A", ":">>, ws2 |-> TRUE,
        look |-> <<"\n", "Q", ":">>],
       [label |-> <<"*", "*", "Q", ":", "*", "*">>,
        mid |-> <<"\n", "*", "*", "A", ":", "*", "*">>, ws2 |-> TRUE,
        look |-> <<"\n", "*", "*", "Q", ":">>],
       [label |-> <<"#", "#", "#">>, mid |-> <<"\n">>, ws2 |-> FALSE,
        look |-> <<"\n", "#", "#", "#">>] >>

RECURSIVE WsRun(_, _)
\* The length of the run of whitespace that starts at index i: what a greedy
\* \s* takes first.
WsRun(t, i) ==
    IF i > Len(t) \/ t[i] \notin Whitespace THEN 0 ELSE 1 + WsRun(t, i + 1)

\* (?=look|$) at index i; $ without re.MULTILINE is the end of the text or
\* the place before a newline that ends it.
LookOK(t, i, pat) ==
    \/ i = Len(t) + 1
    \/ i = Len(t) /\ t[i] = "\n"
    \/ MatchesAt(t, i, pat.look, FALSE)

\* The first group may end at e: mid follows and at least one character is
\* left for the second group (which then matches, at the latest up to the
\* end of the text, re.DOTALL).
MidOK(t, e, pat) ==
    /\ MatchesAt(t, e + 1, pat.mid, FALSE)
    /\ e + Len(pat.mid) + 1 <= Len(t)

\* The ends the first group can have when \s* takes k characters after a
\* label at index p.
Group1Ends(t, p, k, pat) ==
    {e \in (p + Len(pat.label) + k)..Len(t) : MidOK(t, e, pat)}

\* The numbers of characters \s* can take after a label at index p in a
\* match (greedy: the match uses the largest).
WsTakes(t, p, pat) ==
    {k \in 0..WsRun(t, p + Len(pat.label)) : Group1Ends(t, p, k, pat) # {}}

\* The pattern matches at index p.
MatchAt(t, p, pat) ==
    /\ MatchesAt(t, p, pat.label, FALSE)
    /\ WsTakes(t, p, pat) # {}

\* The match at index p: the two groups and the index after the match.
\* \s* is greedy, the groups are lazy.
TheMatch(t, p, pat) ==
    LET k  == MaxOf(WsTakes(t, p, pat))
        s1 == p + Len(pat.label) + k
        e1 == MinOf(Group1Ends(t, p, k, pat))
        m  == e1 + Len(pat.mid) + 1
        k2 == IF pat.ws2
              THEN MinOf({WsRun(t, m), Len(t) - m}) ELSE 0
        s2 == m + k2
        e2 == MinOf({e \in s2..Len(t) : LookOK(t, e + 1, pat)})
    IN [question |-> SubSeq(t, s1, e1), answer |-> SubSeq(t, s2, e2),
        next |-> e2 + 1]

RECURSIVE findall(_, _, _)
\* re.findall(pattern, content, re.DOTALL) from index p on: the groups of
\* the non-overlapping matches, left to right. The scan goes from one match
\* to the next.
findall(pat, t, p) ==
    LET starts == {q \in p..Len(t) : MatchAt(t, q, pat)} IN
    IF starts = {} THEN <<>>
    ELSE LET mt == TheMatch(t, MinOf(starts), pat) IN
         <<[question |-> mt.question, answer |-> mt.answer]>>
             \o findall(pat, t, mt.next)

\* The loop over qa_patterns after pattern idx gave the list matches: it
\* breaks on the first pattern with a match.
LoopAfterNoBreak(matches, idx) ==
    IF idx < Len(qa_patterns) THEN "next" ELSE "exhausted"

LoopAfter(matches, idx) ==
    IF matches # <<>> THEN "break"
    ELSE IF idx < Len(qa_patterns) THEN "next" ELSE "exhausted"

\* Lines of FAQ files.
FaqLines ==
    { <<"Q", ":", " ", "x">>, <<"A", ":", " ", "y">>,
      <<"*", "*", "Q", ":", "*", "*", " ", "x">>,
      <<"*", "*", "A", ":", "*", "*", " ", "y">>,
      <<"#", "#", "#", " ", "h">>, <<"z">> }

\* The files of at most most lines, with or without a final newline.
FaqInputs(most) ==
    LET joined == {Join(ls) : ls \in UNION {[1..n -> FaqLines] : n \in 0..most}}
    IN joined \cup {t \o <<"\n">> : t \in joined}

InitFaq ==
    /\ fpc = "try" /\ fIn \in FaqInputs(MaxLines) /\ fIdx = 1
    /\ qa_pairs = <<>> /\ fTried = <<>>

\* One turn of for pattern in qa_patterns; after the loop, if qa_pairs.
FaqTry ==
    /\ fpc = "try"
    /\ LET matches == findall(qa_patterns[fIdx], fIn, 1)
           after == LoopAfter(matches, fIdx)
           pairs == IF matches # <<>> THEN matches ELSE qa_pairs IN
        /\ qa_pairs' = pairs
        /\ fTried' = Append(fTried, fIdx)
        /\ fIdx' = IF after = "next" THEN fIdx + 1 ELSE fIdx
        /\ fpc' = IF after = "next" THEN "try"
                  ELSE IF pairs # <<>> THEN "chunks" ELSE "fallback"
    /\ UNCHANGED fIn

\* The chunk files are written, one per pair.
FaqChunks ==
    /\ fpc = "chunks"
    /\ fpc' = "done"
    /\ UNCHANGED <<fIn, fIdx, qa_pairs, fTried>>

\* No pattern matched: process_wiki_document(file_path, output_dir).
FaqFallback ==
    /\ fpc = "fallback"
    /\ fpc' = "wiki"
    /\ UNCHANGED <<fIn, fIdx, qa_pairs, fTried>>

NextFaq ==
    \/ FaqTry /\ UNCHANGED notFaq
    \/ FaqChunks /\ UNCHANGED notFaq
    \/ FaqFallback /\ UNCHANGED notFaq

InitF == IdleProv /\ IdleClean /\ IdleHtml /\ InitFaq /\ IdleCase /\ IdleBatch

SpecFaq == InitF /\ [][NextFaq]_vars

\* The patterns that match the file somewhere.
Matching == {i \in 1..Len(qa_patterns) : findall(qa_patterns[i], fIn, 1) # <<>>}

\* C11: the three patterns are tried in the order plain label, emphasized
\* label, heading; the pairs are exactly the matches of the first pattern
\* with a match, no later pattern is tried or adds anything, and without
\* any match the file goes to process_wiki_document.
C11_FirstPatternWins ==
    /\ fpc = "try" => qa_pairs = <<>> /\ fTried = [i \in 1..(fIdx - 1) |-> i]
    /\ fpc \in {"chunks", "done"} =>
          /\ Matching # {}
          /\ qa_pairs = findall(qa_patterns[MinOf(Matching)], fIn, 1)
          /\ fTried = [i \in 1..MinOf(Matching) |-> i]
    /\ fpc \in {"fallback", "wiki"} =>
          /\ Matching = {}
          /\ qa_pairs = <<>>
          /\ fTried = [i \in 1..Len(qa_patterns) |-> i]

\* A file with plain-label pairs and heading pairs gave the plain-label ones.
C11_Witness ==
    /\ fpc = "done"
    /\ Matching = {1, 3}
    /\ qa_pairs = findall(qa_patterns[1], fIn, 1)
    /\ qa_pairs # findall(qa_patterns[3], fIn, 1)

\* ------------------------------------------------- process_support_case
\* A case record is a function from the keys it has to values. A value is
\* [kind, val]: a string (val: its characters), a list of strings (val: its
\* elements) or JSON null. Headings, labels and placeholders are one
\* character each for clean_text.
MaxPresent == 2

StrOf(t) == [kind |-> "str", val |-> t]
ListOf(l) == [kind |-> "list", val |-> l]
Null == [kind |-> "null", val |-> <<>>]

Title == "# Support Case: "

\* The template of lines 138-180 after its first line: the sections in
\* order, each with its lines [key, label, placeholder].
Sections ==
    << [heading |-> "## Issue Summary", lines |->
          << [key |-> "summary", label |-> <<>>,
              placeholder |-> "No summary provided"] >>],
       [heading |-> "## Service Affected", lines |->
          << [key |-> "service", label |-> <<>>, placeholder |-> "Unknown"] >>],
       [heading |-> "## Severity", lines |->
          << [key |-> "severity", label |-> <<>>, placeholder |-> "Unknown"] >>],
       [heading |-> "## Customer Environment", lines |->
          << [key |-> "account_type", label |-> <<"- Account Type: ">>,
              placeholder |-> "Unknown"],
             [key |-> "region", label |-> <<"- Region: ">>,
              placeholder |-> "Unknown"],
             [key |-> "environment", label |-> <<"- Environment: ">>,
              placeholder |-> "Unknown"] >>],
       [heading |-> "## Problem Description", lines |->
          << [key |-> "description", label |-> <<>>,
              placeholder |-> "No description provided"] >>],
       [heading |-> "## Symptoms Observed", lines |->
          << [key |-> "symptoms", label |-> <<>>,
              placeholder |-> "No symptoms documented"] >>],
       [heading |-> "## Root Cause Analysis", lines |->
          << [key |-> "root_cause", label |-> <<>>,
              placeholder |-> "Root cause not determined"] >>],
       [heading |-> "## Resolution Steps", lines |->
          << [key |-> "resolution", label |-> <<>>,
              placeholder |-> "No resolution documented"] >>],
       [heading |-> "## Time to Resolution", lines |->
          << [key |-> "time_to_resolution", label |-> <<>>,
              placeholder |-> "Unknown"] >>],
       [heading |-> "## Prevention Recommendations", lines |->
          << [key |-> "prevention", label |-> <<>>,
              placeholder |-> "No prevention recommendations"] >>],
       [heading |-> "## Lessons Learned", lines |->
          << [key |-> "lessons_learned", label |-> <<>>,
              placeholder |-> "No lessons documented"] >>],
       [heading |-> "## Related Documentation", lines |->
          << [key |-> "related_docs", label |-> <<>>,
              placeholder |-> "None"] >>],
       [heading |-> "## Tags", lines |->
          << [key |-> "tags", label |-> <<>>, placeholder |-> "untagged"] >>] >>

ListFields == {"related_docs", "tags"}
TextFields ==
    {"id", "category", "resolved_date"} \cup
    (UNION {{Sections[i].lines[j].key : j \in DOMAIN Sections[i].lines} :
               i \in DOMAIN Sections} \ ListFields)

RECURSIVE JoinComma(_)
\* ', '.join(l)
JoinComma(l) ==
    IF l = <<>> THEN <<>>
    ELSE IF Len(l) = 1 THEN <<Head(l)>>
    ELSE <<Head(l), ",", " ">> \o JoinComma(Tail(l))

\* case.get(key, default)
Get(case, key, default) == IF key \in DOMAIN case THEN case[key] ELSE default

\* {case.get(key, placeholder)} in the f-string, without the placeholder.
TextNoDefault(case, key, placeholder) ==
    IF key \in ListFields THEN JoinComma(Get(case, key, ListOf(<<>>)).val)
    ELSE Get(case, key, StrOf(<<>>)).val

\* {case.get(key, placeholder)} in the f-string, and for the two list keys
\* {', '.join(case.get(key, [placeholder]))}.
Text(case, key, placeholder) ==
    IF key \in ListFields
    THEN JoinComma(Get(case, key, ListOf(<<placeholder>>)).val)
    ELSE Get(case, key, StrOf(<<placeholder>>)).val

RECURSIVE LinesText(_, _)
LinesText(case, lines) ==
    IF lines = <<>> THEN <<>>
    ELSE LET l == Head(lines) IN
         l.label \o Text(case, l.key, l.placeholder) \o <<"\n">>
             \o LinesText(case, Tail(lines))

RECURSIVE SectionsText(_, _)
SectionsText(case, secs) ==
    IF secs = <<>> THEN <<>>
    ELSE <<"\n", Head(secs).heading, "\n">>
             \o LinesText(case, Head(secs).lines)
             \o SectionsText(case, Tail(secs))

\* content = f"""...""" of lines 138-180.
Content(case) ==
    <<Title>> \o Text(case, "id", "Unknown") \o <<"\n">>
        \o SectionsText(case, Sections)

\* The metadata with the defaults of the body.
CaseMetadataAsBody(case) ==
    [case_id |-> Get(case, "id", Null),
     service |-> Get(case, "service", StrOf(<<"Unknown">>)),
     severity |-> Get(case, "severity", StrOf(<<"Unknown">>)),
     category |-> Get(case, "category", StrOf(<<"general">>)),
     resolution_date |-> Get(case, "resolved_date", StrOf(<<"now">>)),
     tags |-> StrOf(Text(case, "tags", "untagged")),
     document_type |-> StrOf(<<"support_case">>)]

\* metadata = {...} of lines 183-191; "now" is datetime.now().isoformat().
CaseMetadata(case) ==
    [case_id |-> Get(case, "id", Null),
     service |-> Get(case, "service", StrOf(<<"unknown">>)),
     severity |-> Get(case, "severity", StrOf(<<"unknown">>)),
     category |-> Get(case, "category", StrOf(<<"general">>)),
     resolution_date |-> Get(case, "resolved_date", StrOf(<<"now">>)),
     tags |-> Get(case, "tags", ListOf(<<>>)),
     document_type |-> StrOf(<<"support_case">>)]

\* ', '.join(None) raises TypeError.
Raises(case) ==
    \E k \in ListFields : k \in DOMAIN case /\ case[k].kind = "null"

\* process_support_case(case): the pair it returns, or the exception.
process_support_case(case) ==
    IF Raises(case) THEN [raised |-> TRUE, content |-> <<>>, metadata |-> <<>>]
    ELSE [raised |-> FALSE, content |-> clean_text(Content(case)),
          metadata |-> <<CaseMetadata(case)>>]

StrValues == {StrOf(<<"v">>), StrOf(EditMarker)}
ListValues ==
    {ListOf(<<>>), ListOf(<<"ec2">>), ListOf(<<"ec2", "security-group">>), Null}
ValuesOf(key) == IF key \in ListFields THEN ListValues ELSE StrValues

\* The records with at most most keys.
CaseRecords(most) ==
    UNION { {c \in [S -> StrValues \cup ListValues] :
                \A k \in S : c[k] \in ValuesOf(k)} :
            S \in {T \in SUBSET (TextFields \cup ListFields) :
                      Cardinality(T) <= most} }

InitCase ==
    /\ kpc = "in" /\ kCase \in CaseRecords(MaxPresent)
    /\ kBody = <<>> /\ kMeta = <<>>

Render ==
    /\ kpc = "in"
    /\ LET r == process_support_case(kCase) IN
        /\ kpc' = IF r.raised THEN "raised" ELSE "out"
        /\ kBody' = r.content
        /\ kMeta' = r.metadata
    /\ UNCHANGED kCase

NextCase == Render /\ UNCHANGED notCase

InitK == IdleProv /\ IdleClean /\ IdleHtml /\ IdleFaq /\ InitCase /\ IdleBatch

SpecCase == InitK /\ [][NextCase]_vars

\* The headings of the template, and what the body holds of them.
Headings == <<Title>> \o [i \in DOMAIN Sections |-> Sections[i].heading]
IsHeading(c) == \E i \in DOMAIN Headings : Headings[i] = c

\* The part of the body from heading number i up to the next heading.
SectionOf(body, i) ==
    LET at == {p \in DOMAIN body : body[p] = Headings[i]}
        from == MinOf(at)
        nexts == {p \in DOMAIN body : p > from /\ IsHeading(body[p])}
    IN IF at = {} THEN <<>>
       ELSE SubSeq(body, from,
                   IF nexts = {} THEN Len(body) ELSE MinOf(nexts) - 1)

\* C12: whatever keys a case record has, the body holds every heading of
\* the template exactly once and in the template's order, and for each
\* absent key its section holds the key's placeholder.
C12_AllSections ==
    kpc = "out" =>
        /\ SelectSeq(kBody, IsHeading) = Headings
        /\ Contains(SectionOf(kBody, 1),
                    <<Title>> \o (IF "id" \in DOMAIN kCase
                                  THEN <<>> ELSE <<"Unknown">>))
        /\ \A i \in DOMAIN Sections : \A j \in DOMAIN Sections[i].lines :
              LET l == Sections[i].lines[j] IN
              l.key \notin DOMAIN kCase =>
                  Contains(SectionOf(kBody, i + 1),
                           l.label \o <<l.placeholder>>)

\* A record with only id was rendered.
C12_Witness ==
    /\ kpc = "out"
    /\ DOMAIN kCase = {"id"}
    /\ Len(kBody) > Len(Headings)

\* What the body shows under the heading of list key number i of Sections:
\* the section without its heading and the newlines around the line.
ListLine(body, i) == Strip(Tail(SectionOf(body, i + 1)))

\* C13: a list-valued key (related_docs, tags) is rendered as its elements
\* joined by ', ', and an empty list as the sentinel that an absent key
\* gets: 'None' for related_docs, 'untagged' for tags.
C13_ListRendering ==
    kpc = "out" =>
        \A i \in DOMAIN Sections :
            LET l == Sections[i].lines[1] IN
            l.key \in ListFields =>
                ListLine(kBody, i) =
                    IF l.key \notin DOMAIN kCase \/ kCase[l.key].val = <<>>
                    THEN <<l.placeholder>>
                    ELSE JoinComma(kCase[l.key].val)

\* C14: the metadata has its own defaults: service and severity are the
\* record's values or 'unknown' (the body shows 'Unknown'), tags is the
\* record's list as a list or the empty list, document_type is
\* 'support_case'.
C14_MetadataDefaults ==
    kpc = "out" =>
        LET md == kMeta[1] IN
        /\ Len(kMeta) = 1
        /\ \A k \in {"service", "severity"} :
              IF k \in DOMAIN kCase
              THEN md[k] = kCase[k]
              ELSE /\ md[k] = StrOf(<<"unknown">>)
                   /\ \E i \in DOMAIN Sections :
                         /\ Sections[i].lines[1].key = k
                         /\ Contains(SectionOf(kBody, i + 1), <<"Unknown">>)
        /\ md.tags = (IF "tags" \in DOMAIN kCase THEN kCase["tags"]
                      ELSE ListOf(<<>>))
        /\ md.document_type = StrOf(<<"support_case">>)

\* A record with two tags: the body shows them joined, the metadata holds
\* the list, and service is 'unknown' there and 'Unknown' in the body.
C14_Witness ==
    /\ kpc = "out"
    /\ DOMAIN kCase = {"tags"}
    /\ kCase["tags"] = ListOf(<<"ec2", "security-group">>)
    /\ kMeta[1].tags = ListOf(<<"ec2", "security-group">>)
    /\ Contains(kBody, <<"ec2", ",", " ", "security-group">>)
    /\ kMeta[1].service = StrOf(<<"unknown">>)
    /\ Contains(kBody, <<"## Service Affected", "\n", "Unknown">>)

\* ------------------------------------- the batches and the output directory
\* A batch is process_support_cases over the cases of a file, the loop of
\* main over the files of a wiki directory, or the loop of
\* process_faq_document over the pairs of a file. The output directory maps
\* a file name to the number of the input its content was made from:
\* fsText for the text files, fsMeta for the sidecars. It starts empty.
MaxBatch == 2

\* The sidecar a chunk of the file stem only would get.
SidecarOfStem(name) ==
    SubSeq(name, 1, Len(name) - 1) \o <<".metadata.json">>

\* f"{output_filename}.metadata.json"
Sidecar(name) == name \o <<".metadata.json">>

\* case.get('id', f"case-{len(processed)}") and f"case-{case_id}.txt"
CaseOutput(case, done) ==
    <<"case-">> \o Get(case, "id", StrOf(<<"case-", ToString(done)>>)).val
        \o <<".txt">>

\* Path(file_path).stem and f"{filename}.txt"
WikiOutput(file) == <<file.stem, ".txt">>

\* f"faq-{i+1:03d}.txt" for pair number i + 1
FaqOutput(number) == <<"faq-", "00", ToString(number), ".txt">>

\* if file_path.suffix in ['.html', '.htm', '.txt', '.md']
WikiSuffixes == {".html", ".htm", ".txt", ".md"}

\* The document raises: ', '.join(None) in process_support_case, or
\* f.read() of a file that is not UTF-8 in process_wiki_document.
Fails(kind, doc) ==
    CASE kind = "cases" -> Raises(doc)
      [] kind = "wiki" -> ~doc.decodable
      [] OTHER -> FALSE

\* The loop body is entered for the document.
Eligible(kind, doc) == kind = "wiki" => doc.suffix \in WikiSuffixes

\* The name of the text file of the document.
OutputName(kind, doc, idx, done) ==
    CASE kind = "cases" -> CaseOutput(doc, done)
      [] kind = "wiki" -> WikiOutput(doc)
      [] OTHER -> FaqOutput(idx)

\* open(path, 'w') and the write: the file holds what input idx gave.
WriteFile(fs, name, idx) ==
    [n \in DOMAIN fs \cup {name} |-> IF n = name THEN idx ELSE fs[n]]

\* The cases of a batch: with or without id, with tags null or without
\* tags; the ids that are given differ.
BatchCases ==
    { c \in CaseRecords(2) :
         /\ DOMAIN c \subseteq {"id", "tags"}
         /\ "id" \in DOMAIN c =>
               c["id"] \in {StrOf(<<"1">>), StrOf(<<"case-", "0">>),
                            StrOf(<<"case-", "1">>)}
         /\ "tags" \in DOMAIN c => c["tags"] = Null }

\* The files of a wiki directory.
BatchFiles ==
    [stem : {"a", "b"}, suffix : WikiSuffixes \cup {".json"},
     decodable : BOOLEAN]

\* The batches of at most most documents, in the order the loop takes them.
Batches(kind, most) ==
    CASE kind = "cases" ->
           { b \in UNION {[1..n -> BatchCases] : n \in 0..most} :
               \A i, j \in DOMAIN b :
                  (i # j /\ "id" \in DOMAIN b[i] /\ "id" \in DOMAIN b[j])
                      => b[i]["id"] # b[j]["id"] }
      [] kind = "wiki" ->
           { b \in UNION {[1..n -> BatchFiles] : n \in 0..most} :
               \A i, j \in DOMAIN b :
                  i # j => <<b[i].stem, b[i].suffix>> # <<b[j].stem, b[j].suffix>> }
      [] OTHER -> {[i \in 1..n |-> i] : n \in 1..most}

InitBatch ==
    /\ bpc = "loop"
    /\ bKind \in {"cases", "wiki", "faq"}
    /\ bInputs \in Batches(bKind, MaxBatch)
    /\ bIdx = 1 /\ processed = 0
    /\ fsText = <<>> /\ fsMeta = <<>>

\* One turn of the loop for a document that is transformed and written:
\* the text file, then its sidecar.
ProcessDoc ==
    /\ bpc = "loop" /\ bIdx <= Len(bInputs)
    /\ Eligible(bKind, bInputs[bIdx]) /\ ~Fails(bKind, bInputs[bIdx])
    /\ LET name == OutputName(bKind, bInputs[bIdx], bIdx, processed) IN
        /\ fsText' = WriteFile(fsText, name, bIdx)
        /\ fsMeta' = WriteFile(fsMeta, Sidecar(name), bIdx)
    /\ processed' = processed + 1
    /\ bIdx' = bIdx + 1
    /\ UNCHANGED <<bpc, bKind, bInputs>>

\* One turn of the loop of main for a file with another suffix.
SkipDoc ==
    /\ bpc = "loop" /\ bIdx <= Len(bInputs)
    /\ ~Eligible(bKind, bInputs[bIdx])
    /\ bIdx' = bIdx + 1
    /\ UNCHANGED <<bpc, bKind, bInputs, processed, fsText, fsMeta>>

\* The document raises; nothing catches the exception, the run ends.
RaiseDoc ==
    /\ bpc = "loop" /\ bIdx <= Len(bInputs)
    /\ Eligible(bKind, bInputs[bIdx]) /\ Fails(bKind, bInputs[bIdx])
    /\ bpc' = "raised"
    /\ UNCHANGED <<bKind, bInputs, bIdx, processed, fsText, fsMeta>>

\* The loop is over; the function returns.
BatchDone ==
    /\ bpc = "loop" /\ bIdx > Len(bInputs)
    /\ bpc' = "done"
    /\ UNCHANGED <<bKind, bInputs, bIdx, processed, fsText, fsMeta>>

NextBatch ==
    \/ ProcessDoc /\ UNCHANGED notBatch
    \/ SkipDoc /\ UNCHANGED notBatch
    \/ RaiseDoc /\ UNCHANGED notBatch
    \/ BatchDone /\ UNCHANGED notBatch

InitB == IdleProv /\ IdleClean /\ IdleHtml /\ IdleFaq /\ IdleCase /\ InitBatch

SpecBatch == InitB /\ [][NextBatch]_vars

\* C15: when a batch has completed, every text file X has the sidecar
\* X.metadata.json, every sidecar belongs to a text file, and the two were
\* made from the same input, also when two inputs share an output name.
C15_Paired ==
    bpc = "done" =>
        /\ \A x \in DOMAIN fsText :
              /\ x \o <<".metadata.json">> \in DOMAIN fsMeta
              /\ fsMeta[x \o <<".metadata.json">>] = fsText[x]
        /\ \A y \in DOMAIN fsMeta :
              \E x \in DOMAIN fsText : y = x \o <<".metadata.json">>
        /\ Cardinality(DOMAIN fsMeta) = Cardinality(DOMAIN fsText)

\* Two inputs were written to the same name; the pair is the second one's.
C15_Witness ==
    /\ bpc = "done" /\ processed = 2
    /\ Cardinality(DOMAIN fsText) = 1
    /\ \A x \in DOMAIN fsText :
          fsText[x] = 2 /\ fsMeta[x \o <<".metadata.json">>] = 2

\* C16: a document that fails does not end the batch: every other document
\* of the batch is still processed and written.
C16_BatchSurvives ==
    bpc \in {"done", "raised"} =>
        processed = Cardinality({i \in DOMAIN bInputs :
                                    /\ Eligible(bKind, bInputs[i])
                                    /\ ~Fails(bKind, bInputs[i])})

\* C19: the documents of one batch get different output names, so a batch
\* that has completed leaves as many text files (and sidecars) as it has
\* processed documents.
C19_DistinctNames ==
    bpc = "done" =>
        /\ Cardinality(DOMAIN fsText) = processed
        /\ Cardinality(DOMAIN fsMeta) = processed

\* ------------------------------------------------------------------- C20
\* The number of times character c stands in text t.
Count(t, c) == Cardinality({i \in DOMAIN t : t[i] = c})

\* The text characters of the documents.
ContentChars == {c \in UNION {{b[i] : i \in DOMAIN b} : b \in Blocks} :
                    ~IsTag(c) /\ c \notin Whitespace}

\* C20: with the parser library, html_to_markdown renders the text of each
\* content node at most once, also for a matched block inside a matched
\* block (a paragraph inside a blockquote).
C20_RenderedOnce ==
    (hpc = "markup" /\ HAS_BS4) =>
        \A c \in ContentChars : Count(hOut, c) <= Count(hDoc, c)

====
